---- MODULE Spec2Model ----
(***************************************************************************)
(* A model of the job synthesis and execution engine of the genomic string *)
(* replacement tool:                                                       *)
(*   - dumb_scheduler      (multiprocess_handling.py), the polling         *)
(*                         scheduler                          -> Spec      *)
(*   - run_command/worker  (main.py), sequential fallback and worker pool  *)
(*                                                            -> SpecRun   *)
(*   - get_sed_cmd_string / textfile_cmd (generate_commands.py) and        *)
(*     replace_string (file_replace_string.py)                -> SpecSed   *)
(* Each specification drives one component and leaves the variables of the *)
(* other components at their idle values.                                  *)
(***************************************************************************)
EXTENDS Integers, Sequences, FiniteSets, TLC

VARIABLES
    \* ---- dumb_scheduler -------------------------------------------------
    num_jobs,            \* len(param_list)
    param_list,          \* job index -> [stdin, stdout] (the handles of the tuple)
    max_process_num,     \* the concurrency bound N
    job_states,          \* job index -> WAITING | RUNNING | COMPLETE
    remaining_job_index, \* the list popped from its end
    processes,           \* the list of launched job indices, in launch order
    pc,                  \* position of the control thread in dumb_scheduler
    poll_i,              \* position of the `for job_index, proc in processes` loop
    proc,                \* job index -> the OS process: [st, code], code {} or {rc}
    returncode,          \* job index -> Popen.returncode: {} (None) or {rc}
    launches,            \* job index -> number of cmd_runner calls (history)
    completions,         \* job index -> number of times marked COMPLETE (history)
    late_polls,          \* job index -> polls made on a COMPLETE job (history)
    warnings,            \* number of logging.warning calls (history)
    closes,              \* handle -> number of close() calls (history)
    polled,              \* a poll phase has begun (history)
    \* ---- run_command -----------------------------------------------------
    commandfile,         \* the lines of args.commandfilepath, in file order
    multiprocessing,     \* args.multiprocessing
    cmd_params,          \* the commands read from the file, in order
    run_pc,              \* position of the control thread in run_command
    do_multiprocess,     \* line 229
    seq_i,               \* position of the sequential for loop (line 231)
    run_launched,        \* the jobs whose command was launched, in order (history)
    run_active,          \* the jobs whose command is running
    run_rc,              \* job -> {} or {exit code of its command}
    executed,            \* job -> number of executions of its command (history)
    task_queue,          \* the pool's queue of jobs not yet pulled
    pool_worker,         \* worker -> 0 (idle) or the job it executes
    result,              \* the list filled by the callback (line 240)
    log_i,               \* position of the for loop of line 243
    error_logs,          \* job indices logged at error severity (history)
    fs,                  \* the output directory: the <<target, source>> it holds
    \* ---- get_sed_cmd_string / textfile_cmd --------------------------------
    replacement_dict,    \* the map: a sequence of <<key, value>>, keys distinct
    text,                \* the content of the input file (one line)
    sed_pc,              \* "start", "synth" (command built), "error", "ran"
    sed_separator,       \* the separator chosen (None before, and on failure)
    sed_cmd,             \* the tokens of sed_cmd_string
    sed_output,          \* what the pipeline wrote to the output file
    sed_status,          \* the exit status of sed
    file_kind,           \* the template: "text", "gzip" (textfile_cmd) or "bam"
    header_cmd,          \* bam_cmd: the tokens of the sed of the header sub-pipeline
    header_output,       \* bam_cmd: what the header sub-pipeline yields
    \* ---- output_command ---------------------------------------------------
    num_rows,            \* the number of rows of the file-information table
    row_i,               \* position of the for loop of line 170
    cmd_list,            \* the commands appended so far (line 209)
    appended,            \* the rows a command was appended for (history)
    oc_pc,               \* "loop", "raised", "written"
    failed_map,          \* the string_map get_sed_cmd_string raised on
    outfile,             \* the content of the command file args.outfilepath
    outfile_before,      \* its content when output_command was called
    generate_md5,        \* args.generate_md5
    use_symlink,         \* args.use_symlink
    batch_dir_exists,    \* os.path.isdir(batch_dir) (line 186)
    \* ---- outfile_handler --------------------------------------------------
    compression,         \* the argument: [type, val]
    file_exists,         \* os.path.isfile(filepath)
    hnd_pc,              \* "start", "checked", "returned", "raised"
    handle,              \* what is returned: a writer, or NoHandle
    hnd_warnings         \* number of warnings.warn calls

sched_vars == <<num_jobs, param_list, max_process_num, job_states,
                remaining_job_index, processes, pc, poll_i, proc, returncode,
                launches, completions, late_polls, warnings, closes, polled>>

run_vars == <<commandfile, multiprocessing, cmd_params, run_pc, do_multiprocess,
              seq_i, run_launched, run_active, run_rc, executed, task_queue,
              pool_worker, result, log_i, error_logs, fs>>

sed_vars == <<replacement_dict, text, sed_pc, sed_separator, sed_cmd,
              sed_output, sed_status, file_kind, header_cmd, header_output>>

out_vars == <<num_rows, row_i, cmd_list, appended, oc_pc, failed_map, outfile,
              outfile_before, generate_md5, use_symlink, batch_dir_exists>>

hnd_vars == <<compression, file_exists, hnd_pc, handle, hnd_warnings>>

vars == <<sched_vars, run_vars, sed_vars, out_vars, hnd_vars>>

--------------------------------------------------------------------------
\* Bounds of the model.
MaxJobs == 3
MaxProc == 3
MaxLines == 3
MaxKeyLen == 2
MaxValLen == 1
MaxRows == 2
MaxCompLen == 3
MaxTextLen == 3

\* multiprocess_handling.py:8-10
COMPLETE == 1
WAITING == -1
RUNNING == 0

None == "None"
Handles == {"h1", "h2"}
\* the handles a tuple of the batch may carry as stdin, and as stdout
StdinChoices == {None, "h1"}
StdoutChoices == {None, "h2"}
ExitCodes == {0, 1}

Range(f) == {f[x] : x \in DOMAIN f}
Min(a, b) == IF a < b THEN a ELSE b

JobIds == 0 .. (num_jobs - 1)

--------------------------------------------------------------------------
\* dumb_scheduler

\* np.sum(job_states == RUNNING)
RunningCount == Cardinality({j \in JobIds : job_states[j] = RUNNING})

\* np.all(job_states == COMPLETE)
AllComplete == \A j \in JobIds : job_states[j] = COMPLETE

CanAdmit_no_waiting_test == RunningCount < max_process_num

CanAdmit_le ==
    RunningCount <= max_process_num /\ WAITING \in Range(job_states)

\* the condition of the inner while loop (line 30)
CanAdmit ==
    RunningCount < max_process_num /\ WAITING \in Range(job_states)

ShouldPoll_always(j) == TRUE

\* the guard of the poll (line 39)
ShouldPoll(j) == job_states[j] # COMPLETE

ShouldWarn_zero(rc) == rc = {0}

\* the guard of the warning (line 44)
ShouldWarn(rc) == rc # {0}

InitialQueue_ascending(n) == [i \in 1 .. n |-> i - 1]

\* list(range(num_jobs - 1, -1, -1)) (line 26)
InitialQueue(n) == [i \in 1 .. n |-> n - i]

\* the number of close() calls the closing loop makes on handle h (lines 52-56)
CloseCalls(h) ==
    Cardinality({j \in JobIds : param_list[j].stdin = h})
      + Cardinality({j \in JobIds : param_list[j].stdout = h})

SchedInit ==
    /\ num_jobs \in 0 .. MaxJobs
    /\ param_list \in [JobIds -> [stdin : StdinChoices, stdout : StdoutChoices]]
    \* at most two jobs of a batch are given handles
    /\ Cardinality({j \in JobIds : param_list[j].stdin # None
                                     \/ param_list[j].stdout # None}) <= 2
    /\ max_process_num \in 0 .. MaxProc
    /\ job_states = [j \in JobIds |-> WAITING]
    /\ remaining_job_index = InitialQueue(num_jobs)
    /\ processes = <<>>
    /\ pc = "outer"
    /\ poll_i = 1
    /\ proc = [j \in JobIds |-> [st |-> "none", code |-> {}]]
    /\ returncode = [j \in JobIds |-> {}]
    /\ launches = [j \in JobIds |-> 0]
    /\ completions = [j \in JobIds |-> 0]
    /\ late_polls = [j \in JobIds |-> 0]
    /\ warnings = 0
    /\ closes = [h \in Handles |-> 0]
    /\ polled = FALSE

\* dumb_scheduler is not running
SchedIdle ==
    /\ num_jobs = 0
    /\ param_list = <<>>
    /\ max_process_num = 0
    /\ job_states = <<>>
    /\ remaining_job_index = <<>>
    /\ processes = <<>>
    /\ pc = "idle"
    /\ poll_i = 1
    /\ proc = <<>>
    /\ returncode = <<>>
    /\ launches = <<>>
    /\ completions = <<>>
    /\ late_polls = <<>>
    /\ warnings = 0
    /\ closes = [h \in Handles |-> 0]
    /\ polled = FALSE

\* line 29: while not np.all(job_states == COMPLETE)
Outer ==
    /\ pc = "outer"
    /\ pc' = IF AllComplete THEN "close" ELSE "admit"
    /\ UNCHANGED <<num_jobs, param_list, max_process_num, job_states,
                   remaining_job_index, processes, poll_i, proc, returncode,
                   launches, completions, late_polls, warnings, closes, polled>>
    /\ UNCHANGED <<run_vars, sed_vars, out_vars, hnd_vars>>

\* lines 30-35, one iteration of the inner loop whose cmd_runner call succeeds
\* (ok) or raises (the command cannot be launched).  pop() of an empty list
\* raises IndexError.
Admit ==
    /\ pc = "admit"
    /\ CanAdmit
    /\ IF remaining_job_index = <<>>
       THEN /\ pc' = "raised"
            /\ UNCHANGED <<remaining_job_index, processes, job_states, proc,
                           launches>>
       ELSE LET job_index == remaining_job_index[Len(remaining_job_index)] IN
            /\ remaining_job_index' =
                   SubSeq(remaining_job_index, 1, Len(remaining_job_index) - 1)
            /\ launches' = [launches EXCEPT ![job_index] = @ + 1]
            /\ \E ok \in BOOLEAN :
                 IF ok
                 THEN /\ processes' = Append(processes, job_index)
                      /\ proc' = [proc EXCEPT ![job_index] =
                                     [st |-> "running", code |-> {}]]
                      /\ job_states' = [job_states EXCEPT ![job_index] = RUNNING]
                      /\ pc' = "admit"
                 ELSE /\ pc' = "raised"
                      /\ UNCHANGED <<processes, proc, job_states>>
    /\ UNCHANGED <<num_jobs, param_list, max_process_num, poll_i, returncode,
                   completions, late_polls, warnings, closes, polled>>
    /\ UNCHANGED <<run_vars, sed_vars, out_vars, hnd_vars>>

\* line 30 evaluates to false: on to the for loop of line 38
AdmitEnd ==
    /\ pc = "admit"
    /\ ~CanAdmit
    /\ pc' = "poll"
    /\ poll_i' = 1
    /\ polled' = TRUE
    /\ UNCHANGED <<num_jobs, param_list, max_process_num, job_states,
                   remaining_job_index, processes, proc, returncode,
                   launches, completions, late_polls, warnings, closes>>
    /\ UNCHANGED <<run_vars, sed_vars, out_vars, hnd_vars>>

\* lines 38-50, one iteration of the for loop
PollStep ==
    /\ pc = "poll"
    /\ poll_i <= Len(processes)
    /\ LET job_index == processes[poll_i] IN
       IF ShouldPoll(job_index)
       THEN /\ late_polls' = [late_polls EXCEPT ![job_index] =
                                 IF job_states[job_index] = COMPLETE
                                 THEN Min(@ + 1, 2) ELSE @]
            /\ IF proc[job_index].st = "exited"
               THEN LET return_code == proc[job_index].code IN
                    /\ returncode' = [returncode EXCEPT ![job_index] = return_code]
                    /\ warnings' = IF ShouldWarn(return_code)
                                   THEN Min(warnings + 1, MaxJobs + 2)
                                   ELSE warnings
                    /\ job_states' = [job_states EXCEPT ![job_index] = COMPLETE]
                    /\ completions' = [completions EXCEPT ![job_index] =
                                          Min(@ + 1, 2)]
               ELSE UNCHANGED <<returncode, warnings, job_states, completions>>
       ELSE UNCHANGED <<late_polls, returncode, warnings, job_states,
                        completions>>
    /\ poll_i' = poll_i + 1
    /\ UNCHANGED <<num_jobs, param_list, max_process_num, remaining_job_index,
                   processes, pc, proc, launches, closes, polled>>
    /\ UNCHANGED <<run_vars, sed_vars, out_vars, hnd_vars>>

\* the for loop is exhausted: line 51, time.sleep(polling_period)
PollEnd ==
    /\ pc = "poll"
    /\ poll_i > Len(processes)
    /\ pc' = "sleep"
    /\ UNCHANGED <<num_jobs, param_list, max_process_num, job_states,
                   remaining_job_index, processes, poll_i, proc, returncode,
                   launches, completions, late_polls, warnings, closes, polled>>
    /\ UNCHANGED <<run_vars, sed_vars, out_vars, hnd_vars>>

\* the sleep returns: back to line 29
Sleep ==
    /\ pc = "sleep"
    /\ pc' = "outer"
    /\ UNCHANGED <<num_jobs, param_list, max_process_num, job_states,
                   remaining_job_index, processes, poll_i, proc, returncode,
                   launches, completions, late_polls, warnings, closes, polled>>
    /\ UNCHANGED <<run_vars, sed_vars, out_vars, hnd_vars>>

\* lines 52-58: close every handle of every tuple, then return processes
Close ==
    /\ pc = "close"
    /\ closes' = [h \in Handles |-> closes[h] + CloseCalls(h)]
    /\ pc' = "done"
    /\ UNCHANGED <<num_jobs, param_list, max_process_num, job_states,
                   remaining_job_index, processes, poll_i, proc, returncode,
                   launches, completions, late_polls, warnings, polled>>
    /\ UNCHANGED <<run_vars, sed_vars, out_vars, hnd_vars>>

\* the environment: the process launched for job j exits with some exit code
ProcExit(j) ==
    /\ j \in JobIds
    /\ proc[j].st = "running"
    /\ \E rc \in ExitCodes :
         proc' = [proc EXCEPT ![j] = [st |-> "exited", code |-> {rc}]]
    /\ UNCHANGED <<num_jobs, param_list, max_process_num, job_states,
                   remaining_job_index, processes, pc, poll_i, returncode,
                   launches, completions, late_polls, warnings, closes, polled>>
    /\ UNCHANGED <<run_vars, sed_vars, out_vars, hnd_vars>>

ProcExitAny == \E j \in JobIds : ProcExit(j)

--------------------------------------------------------------------------
\* run_command (main.py)

\* the lines a command file is made of: a command, blank lines, padded commands
FileLines == {<<>>, <<" ">>, <<"c">>, <<"d", " ">>}

\* the whitespace of the model: the blank and the line break
Whitespace == {" ", "\n"}

RECURSIVE LStrip(_)
LStrip(str) ==
    IF str # <<>> /\ Head(str) \in Whitespace THEN LStrip(Tail(str)) ELSE str

RECURSIVE RStrip(_)
RStrip(str) ==
    IF str # <<>> /\ str[Len(str)] \in Whitespace
    THEN RStrip(SubSeq(str, 1, Len(str) - 1))
    ELSE str

Strip_leading(str) == LStrip(str)

\* str.strip(): line.strip() (line 225), outfilepath.strip() (line 208)
Strip(str) == RStrip(LStrip(str))

RECURSIVE ReadCommands(_)
\* lines 222-227: the stripped non-empty lines, in file order, each as the
\* tuple (line, None, None)
ReadCommands(lines) ==
    IF lines = <<>> THEN <<>>
    ELSE LET line == Strip(Head(lines)) IN
         IF line # <<>>
         THEN << <<line, None, None>> >> \o ReadCommands(Tail(lines))
         ELSE ReadCommands(Tail(lines))

\* python's str.split(c)
RECURSIVE SplitOn(_, _)
SplitOn(str, c) ==
    IF \A i \in 1 .. Len(str) : str[i] # c THEN <<str>>
    ELSE LET i == CHOOSE i \in 1 .. Len(str) :
                      str[i] = c /\ \A k \in 1 .. (i - 1) : str[k] # c
         IN  <<SubSeq(str, 1, i - 1)>> \o SplitOn(SubSeq(str, i + 1, Len(str)), c)

\* the words of a simple command as the shell splits them at blanks
ShellWords(cmd) == SelectSeq(SplitOn(cmd, " "), LAMBDA word : word # <<>>)

\* one simple command run in the output directory fs: its exit code and what
\* the directory holds afterwards. `mkdir -p` changes no file; `ln -s` fails
\* when the target exists; `cp` overwrites it.
RunSimple(words, dir) ==
    IF words = <<>> \/ words[1] = <<"mkdir">> THEN [rc |-> 0, fs |-> dir]
    ELSE IF words[1] = <<"ln">>
    THEN IF \E e \in dir : e[1] = words[4]
         THEN [rc |-> 1, fs |-> dir]
         ELSE [rc |-> 0, fs |-> dir \cup {<<words[4], words[3]>>}]
    ELSE [rc |-> 0,
          fs |-> {e \in dir : e[1] # words[3]} \cup {<<words[3], words[2]>>}]

RECURSIVE RunList(_, _, _)
\* `a ; b ; ...`: the commands run in turn, the exit code is the last one's
RunList(cmds, rc, dir) ==
    IF cmds = <<>> THEN [rc |-> rc, fs |-> dir]
    ELSE LET end == RunSimple(ShellWords(Head(cmds)), dir)
         IN  RunList(Tail(cmds), end.rc, end.fs)

\* the commands whose effect is modelled: lists of mkdir, ln and cp
IsFileCommand(cmd) ==
    \A c \in Range(SplitOn(cmd, ";")) :
        ShellWords(c) # <<>> =>
            ShellWords(c)[1] \in {<<"mkdir">>, <<"ln">>, <<"cp">>}

\* subprocess.call(param[0], shell=True) (line 258): the possible endings of
\* the command started on the output directory dir. With the input files in
\* place a list of mkdir, ln and cp has one ending; any other command ends
\* with some exit code and is not followed into the files it writes.
ShellOutcomes(cmd, dir) ==
    IF IsFileCommand(cmd)
    THEN {RunList(SplitOn(cmd, ";"), 0, dir)}
    ELSE {[rc |-> c, fs |-> dir] : c \in ExitCodes}

\* line 229
DoMultiprocess(n) == n > 1

AssertOk_always(rc) == TRUE

\* the assertion of line 233
AssertOk(rc) == rc = 0

CollectReady_nowait == TRUE

\* mp.wait() (line 242): the map result is set, after its callback has run,
\* once the result of every job has arrived
CollectReady == \A j \in 1 .. Len(cmd_params) : run_rc[j] # {}

\* line 244
IsError(rc) == rc # {0}

RunJobs == 1 .. Len(cmd_params)
Workers == 1 .. multiprocessing

RunInit ==
    /\ commandfile \in UNION {[1 .. n -> FileLines] : n \in 0 .. MaxLines}
    /\ multiprocessing \in (-1) .. MaxProc
    /\ cmd_params = <<>>
    /\ run_pc = "start"
    /\ do_multiprocess = FALSE
    /\ seq_i = 1
    /\ run_launched = <<>>
    /\ run_active = {}
    /\ run_rc = <<>>
    /\ executed = <<>>
    /\ task_queue = <<>>
    /\ pool_worker = <<>>
    /\ result = <<>>
    /\ log_i = 1
    /\ error_logs = <<>>
    /\ fs = {}

\* run_command is not running
RunIdle ==
    /\ commandfile = <<>>
    /\ multiprocessing = 0
    /\ cmd_params = <<>>
    /\ run_pc = "idle"
    /\ do_multiprocess = FALSE
    /\ seq_i = 1
    /\ run_launched = <<>>
    /\ run_active = {}
    /\ run_rc = <<>>
    /\ executed = <<>>
    /\ task_queue = <<>>
    /\ pool_worker = <<>>
    /\ result = <<>>
    /\ log_i = 1
    /\ error_logs = <<>>
    /\ fs = {}

\* lines 222-230 and 235-241: read the command file, choose the strategy and,
\* in the pool strategy, create the pool and submit the whole batch
RunRead ==
    /\ run_pc = "start"
    /\ cmd_params' = ReadCommands(commandfile)
    /\ do_multiprocess' = DoMultiprocess(multiprocessing)
    /\ run_rc' = [j \in 1 .. Len(cmd_params') |-> {}]
    /\ executed' = [j \in 1 .. Len(cmd_params') |-> 0]
    /\ IF do_multiprocess'
       THEN /\ run_pc' = "wait"
            /\ task_queue' = [j \in 1 .. Len(cmd_params') |-> j]
            /\ pool_worker' = [w \in Workers |-> 0]
       ELSE /\ run_pc' = "seq"
            /\ UNCHANGED <<task_queue, pool_worker>>
    /\ UNCHANGED <<commandfile, multiprocessing, seq_i, run_launched,
                   run_active, result, log_i, error_logs>>
    /\ UNCHANGED fs
    /\ UNCHANGED <<sched_vars, sed_vars, out_vars, hnd_vars>>

\* line 232, the start of subprocess.call: the command is launched, or Popen
\* raises because it cannot be launched
SeqLaunch ==
    /\ run_pc = "seq"
    /\ seq_i <= Len(cmd_params)
    /\ \E ok \in BOOLEAN :
         IF ok
         THEN /\ run_launched' = Append(run_launched, seq_i)
              /\ run_active' = run_active \cup {seq_i}
              /\ executed' = [executed EXCEPT ![seq_i] = Min(@ + 1, 2)]
              /\ run_pc' = "call"
         ELSE /\ run_pc' = "raised"
              /\ UNCHANGED <<run_launched, run_active, executed>>
    /\ UNCHANGED <<commandfile, multiprocessing, cmd_params, do_multiprocess,
                   seq_i, run_rc, task_queue, pool_worker, result, log_i,
                   error_logs>>
    /\ UNCHANGED fs
    /\ UNCHANGED <<sched_vars, sed_vars, out_vars, hnd_vars>>

\* lines 232-233: subprocess.call returns the exit code, which is asserted
SeqReturn ==
    /\ run_pc = "call"
    /\ \E return_code \in ExitCodes :
         /\ run_rc' = [run_rc EXCEPT ![seq_i] = {return_code}]
         /\ run_active' = run_active \ {seq_i}
         /\ IF AssertOk(return_code)
            THEN run_pc' = "seq" /\ seq_i' = seq_i + 1
            ELSE run_pc' = "raised" /\ UNCHANGED seq_i
    /\ UNCHANGED <<commandfile, multiprocessing, cmd_params, do_multiprocess,
                   run_launched, executed, task_queue, pool_worker, result,
                   log_i, error_logs>>
    /\ UNCHANGED fs
    /\ UNCHANGED <<sched_vars, sed_vars, out_vars, hnd_vars>>

\* the loop of line 231 is exhausted: line 254
SeqEnd ==
    /\ run_pc = "seq"
    /\ seq_i > Len(cmd_params)
    /\ run_pc' = "done"
    /\ UNCHANGED <<commandfile, multiprocessing, cmd_params, do_multiprocess,
                   seq_i, run_launched, run_active, run_rc, executed,
                   task_queue, pool_worker, result, log_i, error_logs>>
    /\ UNCHANGED fs
    /\ UNCHANGED <<sched_vars, sed_vars, out_vars, hnd_vars>>

\* an idle worker of the pool pulls the next job and starts worker(param):
\* subprocess.call(param[0], shell=True) (line 258)
WorkerTake(w) ==
    /\ run_pc = "wait"
    /\ pool_worker[w] = 0
    /\ task_queue # <<>>
    /\ LET j == Head(task_queue) IN
         /\ task_queue' = Tail(task_queue)
         /\ pool_worker' = [pool_worker EXCEPT ![w] = j]
         /\ run_launched' = Append(run_launched, j)
         /\ run_active' = run_active \cup {j}
         /\ executed' = [executed EXCEPT ![j] = Min(@ + 1, 2)]
    /\ UNCHANGED <<commandfile, multiprocessing, cmd_params, run_pc,
                   do_multiprocess, seq_i, run_rc, result, log_i, error_logs>>
    /\ UNCHANGED fs
    /\ UNCHANGED <<sched_vars, sed_vars, out_vars, hnd_vars>>

\* lines 258-259: the command of worker w ends and (command, exit code) is
\* handed back to the pool
WorkerReturn(w) ==
    /\ run_pc = "wait"
    /\ pool_worker[w] # 0
    /\ LET j == pool_worker[w] IN
       \E end \in ShellOutcomes(cmd_params[j][1], fs) :
         /\ run_rc' = [run_rc EXCEPT ![j] = {end.rc}]
         /\ fs' = end.fs
         /\ run_active' = run_active \ {j}
         /\ pool_worker' = [pool_worker EXCEPT ![w] = 0]
    /\ UNCHANGED <<commandfile, multiprocessing, cmd_params, run_pc,
                   do_multiprocess, seq_i, run_launched, executed, task_queue,
                   result, log_i, error_logs>>
    /\ UNCHANGED <<sched_vars, sed_vars, out_vars, hnd_vars>>

\* lines 240-242: the callback extends result with the list of all the pairs,
\* mp.wait() returns and the pool is left
Collect ==
    /\ run_pc = "wait"
    /\ CollectReady
    /\ result' = [j \in 1 .. Len(cmd_params) |-> <<cmd_params[j][1], run_rc[j]>>]
    /\ run_pc' = "log"
    /\ log_i' = 1
    /\ UNCHANGED <<commandfile, multiprocessing, cmd_params, do_multiprocess,
                   seq_i, run_launched, run_active, run_rc, executed,
                   task_queue, pool_worker, error_logs>>
    /\ UNCHANGED fs
    /\ UNCHANGED <<sched_vars, sed_vars, out_vars, hnd_vars>>

\* lines 243-245, one iteration of the for loop
LogStep ==
    /\ run_pc = "log"
    /\ log_i <= Len(result)
    /\ error_logs' = IF IsError(result[log_i][2])
                     THEN Append(error_logs, log_i)
                     ELSE error_logs
    /\ log_i' = log_i + 1
    /\ UNCHANGED <<commandfile, multiprocessing, cmd_params, run_pc,
                   do_multiprocess, seq_i, run_launched, run_active, run_rc,
                   executed, task_queue, pool_worker, result>>
    /\ UNCHANGED fs
    /\ UNCHANGED <<sched_vars, sed_vars, out_vars, hnd_vars>>

\* the loop of line 243 is exhausted: line 254
LogEnd ==
    /\ run_pc = "log"
    /\ log_i > Len(result)
    /\ run_pc' = "done"
    /\ UNCHANGED <<commandfile, multiprocessing, cmd_params, do_multiprocess,
                   seq_i, run_launched, run_active, run_rc, executed,
                   task_queue, pool_worker, result, log_i, error_logs>>
    /\ UNCHANGED fs
    /\ UNCHANGED <<sched_vars, sed_vars, out_vars, hnd_vars>>

WorkerTakeAny == \E w \in Workers : WorkerTake(w)
WorkerReturnAny == \E w \in Workers : WorkerReturn(w)

--------------------------------------------------------------------------
\* get_sed_cmd_string, textfile_cmd (generate_commands.py) and replace_string
\* (file_replace_string.py).  A string is a sequence of one-character strings.

\* string.punctuation; "grave" stands for the grave accent (backquote), which
\* cannot be written in a string of this language
Punctuation ==
    <<"!", "\"", "#", "$", "%", "&", "'", "(", ")", "*", "+", ",", "-", ".",
      "/", ":", ";", "<", "=", ">", "?", "@", "[", "\\", "]", "^", "_", "grave",
      "{", "|", "}", "~">>

Candidates_punctuation_only == Punctuation

\* '/' + string.punctuation (line 73)
Candidates == <<"/">> \o Punctuation

AllChar_keys(d) == UNION {Range(d[i][1]) : i \in 1 .. Len(d)}

\* set(''.join(list(keys) + list(values))) (line 71)
AllChar(d) ==
    UNION {Range(d[i][1]) \cup Range(d[i][2]) : i \in 1 .. Len(d)}

\* lines 72-76: the first candidate that is not in allchar, or None
SelectSeparator(d) ==
    LET allchar == AllChar(d)
        free == {i \in 1 .. Len(Candidates) : Candidates[i] \notin allchar}
    IN  IF free = {} THEN None
        ELSE Candidates[CHOOSE i \in free : \A k \in free : i <= k]

\* one clause f" s{sep}{key}{sep}{val}{sep}g " of the command (line 82)
Clause(sep, entry) ==
    [sep |-> sep, key |-> entry[1], val |-> entry[2], flags |-> "g"]

\* lines 80-83: "sed -e" followed by one clause per entry, in map order
SedCmdTokens(sep, d) ==
    <<"sed", "-e">> \o [i \in 1 .. Len(d) |-> Clause(sep, d[i])]

\* what sed's regular expression `key` matches at the head of str: "." matches
\* any character, a letter matches itself
SedMatchesHead(key, str) ==
    /\ Len(key) <= Len(str)
    /\ \A i \in 1 .. Len(key) : key[i] = "." \/ key[i] = str[i]

RECURSIVE SedSubstitute(_, _, _)
\* sed's s<sep>key<sep>val<sep>g on one line: every non-overlapping match of
\* the regular expression, leftmost first, is replaced
SedSubstitute(str, key, val) ==
    IF str = <<>> \/ key = <<>> THEN str
    ELSE IF SedMatchesHead(key, str)
         THEN val \o SedSubstitute(SubSeq(str, Len(key) + 1, Len(str)), key, val)
         ELSE <<Head(str)>> \o SedSubstitute(Tail(str), key, val)

\* the command line `sed -e SCRIPT [FILE...] infile`: the token after -e is the
\* script, every later token of the command is an input file
SedScript(cmd) == cmd[3]
SedExtraFiles(cmd) == SubSeq(cmd, 4, Len(cmd))

\* python's str.startswith
StartsWith(str, key) ==
    Len(key) <= Len(str) /\ SubSeq(str, 1, Len(key)) = key

RECURSIVE StrReplace(_, _, _)
\* python's str.replace(key, val) for a non-empty key
StrReplace(str, key, val) ==
    IF str = <<>> \/ key = <<>> THEN str
    ELSE IF StartsWith(str, key)
         THEN val \o StrReplace(SubSeq(str, Len(key) + 1, Len(str)), key, val)
         ELSE <<Head(str)>> \o StrReplace(Tail(str), key, val)

RECURSIVE replace_string(_, _)
\* file_replace_string.py:153-155
replace_string(str, d) ==
    IF d = <<>> THEN str
    ELSE replace_string(StrReplace(str, d[1][1], d[1][2]), Tail(d))

\* the characters the execution of the pipeline is modelled for
SedAlphabet == {"A", "B", "."}

RECURSIVE StringsUpTo(_, _)
StringsUpTo(alphabet, n) ==
    IF n = 0 THEN {<<>>}
    ELSE LET shorter == StringsUpTo(alphabet, n - 1) IN
         shorter \cup {Append(str, c) : str \in shorter, c \in alphabet}

AllPunct == Punctuation
Without(str, c) == SelectSeq(str, LAMBDA x : x # c)
FirstHalf == SubSeq(Punctuation, 1, 16)
SecondHalf == SubSeq(Punctuation, 17, 32)

\* the replacement maps of the model: every single-entry map over the letters
\* and ".", and maps that use up all, or all but one, of the punctuation
SingleMaps ==
    {<< <<k, v>> >> : k \in StringsUpTo(SedAlphabet, MaxKeyLen) \ {<<>>},
                      v \in StringsUpTo(SedAlphabet, MaxValLen)}
PunctStrings ==
    {AllPunct, Without(AllPunct, "/"), Without(AllPunct, "~"),
     Without(Without(AllPunct, "/"), "!"), <<"/">>, <<"/", "!">>,
     <<"A", "/", "0">>}
PunctMaps ==
    {<< <<k, v>> >> : k \in PunctStrings, v \in PunctStrings \cup {<<"A">>}}
SplitStrings == {FirstHalf, SecondHalf, <<"A">>, <<"b", "7">>, <<"/">>}
SplitMaps ==
    {<< <<k1, v1>>, <<k2, v2>> >> :
        k1 \in SplitStrings, v1 \in SplitStrings,
        k2 \in SplitStrings \ {<<"/">>}, v2 \in {SecondHalf, <<"A">>}}
\* two-entry maps over the letters and "."
PairStrings == {<<"A">>, <<"B">>, <<".">>}
PairMaps ==
    {<< <<k1, v1>>, <<k2, v2>> >> :
        k1 \in PairStrings, v1 \in PairStrings \cup {<<>>},
        k2 \in PairStrings, v2 \in PairStrings \cup {<<>>}}
Maps ==
    {d \in SingleMaps \cup PunctMaps \cup SplitMaps \cup PairMaps :
        \A i, k \in 1 .. Len(d) : i # k => d[i][1] # d[k][1]}

SedInit ==
    /\ replacement_dict \in Maps
    /\ text \in StringsUpTo(SedAlphabet, MaxTextLen)
    /\ sed_pc = "start"
    /\ sed_separator = None
    /\ sed_cmd = <<>>
    /\ sed_output = <<>>
    /\ sed_status = 0
    /\ file_kind \in {"text", "gzip", "bam"}
    /\ header_cmd = <<>>
    /\ header_output = <<>>

\* no command is being synthesized
SedIdle ==
    /\ replacement_dict = <<>>
    /\ text = <<>>
    /\ sed_pc = "idle"
    /\ sed_separator = None
    /\ sed_cmd = <<>>
    /\ sed_output = <<>>
    /\ sed_status = 0
    /\ file_kind = "idle"
    /\ header_cmd = <<>>
    /\ header_output = <<>>

SeparatorMissing_never(sep) == FALSE

\* line 77: `if sed_separator is None`
SeparatorMissing(sep) == sep = None

\* sed in a pipe, `... | sed -e SCRIPT [FILE...] | ...`: without file
\* arguments sed filters its standard input; with file arguments it reads
\* those files, which do not exist, and writes nothing
SedOnStdin(cmd, stdin) ==
    IF SedExtraFiles(cmd) = <<>>
    THEN SedSubstitute(stdin, SedScript(cmd).key, SedScript(cmd).val)
    ELSE <<>>

\* `sed -e SCRIPT [FILE...] infile`: the files that do not exist are skipped,
\* the input file is filtered
SedOnFile(cmd, infile) ==
    SedSubstitute(infile, SedScript(cmd).key, SedScript(cmd).val)

\* the exit status of sed: 2 when an input file could not be read
SedExit(cmd) == IF SedExtraFiles(cmd) = <<>> THEN 0 ELSE 2

\* textfile_cmd(infilepath, outfilepath, replacement_dict, is_gzip) (lines
\* 155-160) with get_sed_cmd_string (lines 69-83): the command is built, or
\* RuntimeError is raised (line 78)
TextfileCmd ==
    /\ sed_pc = "start"
    /\ file_kind \in {"text", "gzip"}
    /\ LET sep == SelectSeparator(replacement_dict) IN
         /\ sed_separator' = sep
         /\ IF SeparatorMissing(sep)
            THEN sed_pc' = "error" /\ UNCHANGED sed_cmd
            ELSE sed_pc' = "synth" /\ sed_cmd' = SedCmdTokens(sep, replacement_dict)
    /\ UNCHANGED <<replacement_dict, text, sed_output, sed_status, file_kind,
                   header_cmd, header_output>>
    /\ UNCHANGED <<sched_vars, run_vars, out_vars, hnd_vars>>

\* bam_cmd(inbam_path, outbam_path, replacement_dict) with remove_pg (lines
\* 141-151): sed_cmd_string is interpolated into the header sub-pipeline
\* (line 147) and into edit_cmd, the body sub-pipeline (lines 142-144)
BamCmd ==
    /\ sed_pc = "start"
    /\ file_kind = "bam"
    /\ LET sep == SelectSeparator(replacement_dict) IN
         /\ sed_separator' = sep
         /\ IF SeparatorMissing(sep)
            THEN sed_pc' = "error" /\ UNCHANGED <<sed_cmd, header_cmd>>
            ELSE LET sed_cmd_string == SedCmdTokens(sep, replacement_dict) IN
                 /\ sed_pc' = "synth"
                 /\ sed_cmd' = sed_cmd_string
                 /\ header_cmd' = sed_cmd_string
    /\ UNCHANGED <<replacement_dict, text, sed_output, sed_status, file_kind,
                   header_output>>
    /\ UNCHANGED <<sched_vars, run_vars, out_vars, hnd_vars>>

\* the command of textfile_cmd is executed on the input:
\* `sed -e ... infilepath > outfilepath` (line 159), or
\* `gzip -cd infilepath | sed -e ... | gzip -c > outfilepath` (line 157)
RunPipeline ==
    /\ sed_pc = "synth"
    /\ file_kind \in {"text", "gzip"}
    /\ AllChar(replacement_dict) \subseteq SedAlphabet
    /\ sed_output' = IF file_kind = "gzip"
                     THEN SedOnStdin(sed_cmd, text)
                     ELSE SedOnFile(sed_cmd, text)
    /\ sed_status' = SedExit(sed_cmd)
    /\ sed_pc' = "ran"
    /\ UNCHANGED <<replacement_dict, text, sed_separator, sed_cmd, file_kind,
                   header_cmd, header_output>>
    /\ UNCHANGED <<sched_vars, run_vars, out_vars, hnd_vars>>

\* the command of bam_cmd is executed: both sub-pipelines feed sed through a
\* pipe (the line of the model is a header line other than @PG in the header
\* sub-pipeline and a record in the body sub-pipeline)
RunBam ==
    /\ sed_pc = "synth"
    /\ file_kind = "bam"
    /\ AllChar(replacement_dict) \subseteq SedAlphabet
    /\ header_output' = SedOnStdin(header_cmd, text)
    /\ sed_output' = SedOnStdin(sed_cmd, text)
    /\ sed_status' = SedExit(sed_cmd)
    /\ sed_pc' = "ran"
    /\ UNCHANGED <<replacement_dict, text, sed_separator, sed_cmd, file_kind,
                   header_cmd>>
    /\ UNCHANGED <<sched_vars, run_vars, out_vars, hnd_vars>>

--------------------------------------------------------------------------
\* output_command (main.py) and the command strings of generate_commands.py
\*
\* A string is a sequence of atoms: a character, or a run of characters
\* without whitespace (a word, a path component, the extension ".gz").

RECURSIVE JoinWith(_, _)
\* python's c.join(fields)
JoinWith(fields, c) ==
    IF fields = <<>> THEN <<>>
    ELSE IF Len(fields) = 1 THEN fields[1]
    ELSE fields[1] \o <<c>> \o JoinWith(Tail(fields), c)

RECURSIVE KeepFields(_, _, _)
\* lines 101-104: the non-empty fields whose index is not in remove_fields
KeepFields(fields, i, remove_fields) ==
    IF fields = <<>> THEN <<>>
    ELSE (IF i \notin remove_fields /\ Head(fields) # <<>>
          THEN <<Head(fields)>> ELSE <<>>)
         \o KeepFields(Tail(fields), i + 1, remove_fields)

\* generate_new_filename (lines 86-106); no value of the map is None here
generate_new_filename(infilename, d, remove_fields) ==
    JoinWith(KeepFields(SplitOn(replace_string(infilename, d), "_"), 0,
                        remove_fields), "_")

RECURSIVE SedClauses(_, _)
\* line 82, for every entry of the map in its order
SedClauses(sep, d) ==
    IF d = <<>> THEN <<>>
    ELSE <<" ", "s", sep>> \o d[1][1] \o <<sep>> \o d[1][2] \o <<sep, "g", " ">>
         \o SedClauses(sep, Tail(d))

\* get_sed_cmd_string (lines 69-83) as a string: [ok, cmd], ok FALSE when
\* RuntimeError is raised (line 78)
get_sed_cmd_string(d) ==
    LET sep == SelectSeparator(d) IN
    IF SeparatorMissing(sep)
    THEN [ok |-> FALSE, cmd |-> <<>>]
    ELSE [ok |-> TRUE, cmd |-> <<"sed", " ", "-e">> \o SedClauses(sep, d)]

\* fastq_cmd (lines 109-120); old_md5: the file infilepath.md5 exists
fastq_cmd(infilepath, outfilepath, symlink, old_md5) ==
    LET cmd == IF symlink THEN <<"ln", " ", "-s">> ELSE <<"cp">>
        cmd_string == cmd \o <<" ">> \o infilepath \o <<" ">> \o outfilepath
    IN  IF old_md5
        THEN cmd_string \o <<" ", ";", " ">> \o cmd \o <<" ">> \o infilepath
             \o <<".md5", " ">> \o outfilepath \o <<".md5">>
        ELSE cmd_string

\* bam_cmd (lines 123-151) with remove_pg, its default
bam_cmd(inbam_path, outbam_path, d, num_thread) ==
    LET sed == get_sed_cmd_string(d)
        edit_cmd == <<"samtools", " ", "view", " ", "-h", " ", "-@", " ",
                      num_thread, " ">> \o inbam_path \o <<" ", "|", " ">>
                    \o sed.cmd
                    \o <<" ", "|", " ", "samtools", " ", "view", " ", "-b", " ",
                         "-h", " ", "-@", " ", num_thread, " ">>
    IN  IF ~sed.ok THEN sed
        ELSE [ok |-> TRUE,
              cmd |-> <<"samtools", " ", "reheader", " ", "-P", " ", "<(",
                        "samtools", " ", "view", " ", "-H", " ">>
                      \o inbam_path
                      \o <<" ", "|", " ", "grep", " ", "-v", " ", "'^@PG'", " ",
                           "|", " ">>
                      \o sed.cmd \o <<")", " ", "<(">> \o edit_cmd
                      \o <<")", " ", ">", " ">> \o outbam_path]

\* textfile_cmd (lines 154-160)
textfile_cmd(infilepath, outfilepath, d, is_gzip) ==
    LET sed == get_sed_cmd_string(d) IN
    IF ~sed.ok THEN sed
    ELSE IF is_gzip
    THEN [ok |-> TRUE,
          cmd |-> <<"gzip", " ", "-cd", " ">> \o infilepath \o <<" ", "|", " ">>
                  \o sed.cmd
                  \o <<" ", "|", " ", "gzip", " ", "-c", " ", ">", " ">>
                  \o outfilepath]
    ELSE [ok |-> TRUE,
          cmd |-> sed.cmd \o <<" ">> \o infilepath \o <<" ", ">", " ">>
                  \o outfilepath]

\* python's str.endswith for a suffix of one atom
EndsWith(str, suffix) == str # <<>> /\ str[Len(str)] = suffix

\* the rows of the table, all of one batch: the sample id is a letter or holds
\* every punctuation character; the file name may end with whitespace; the
\* table has no "replacements" column
FileTypes == {"fastq", "bam", "vcf", "txt"}
SampleIds == {<<"A">>, AllPunct}
Filenames == {<<"A">>, <<"A", " ">>, <<"A", "\n">>, <<"A", "_", "_", "A", ".gz">>}
Rows ==
    {row \in [filetype : FileTypes, sample_id : SampleIds,
              filename : Filenames, old_md5 : BOOLEAN] :
        /\ row.sample_id = AllPunct => row.filename = <<"A">>
        /\ row.filetype # "fastq" => ~row.old_md5}

\* line 179, with rand_string (line 66) giving the letter B
StringMap(row) == << <<row.sample_id, <<"B">>>> >>

\* lines 184-187
MkdirPrefix(dir_exists) ==
    IF dir_exists THEN <<>> ELSE <<"mkdir", " ", "-p", " ", "out", ";", " ">>

\* lines 207-208
Md5Suffix(outfilepath) ==
    <<" ", ";", " ", "md5sum", " ">> \o outfilepath \o <<" ", ">", " ">>
    \o Strip(outfilepath) \o <<".md5">>

\* lines 171-208, one pass of the loop body: [ok, cmd]
RowCommand(row, md5, symlink, dir_exists) ==
    LET infilepath == <<"in", "/">> \o row.filename
        string_map == StringMap(row)
        remove_fields == IF row.filetype = "fastq" THEN 1 .. 3 ELSE {}
        outfilename == generate_new_filename(row.filename, string_map,
                                             remove_fields)
        outfilepath == <<"out", "/">> \o outfilename
        body == IF row.filetype = "fastq"
                THEN [ok |-> TRUE,
                      cmd |-> fastq_cmd(infilepath, outfilepath, symlink,
                                        row.old_md5)]
                ELSE IF row.filetype = "bam"
                THEN bam_cmd(infilepath, outfilepath, string_map, "1")
                ELSE textfile_cmd(infilepath, outfilepath, string_map,
                                  EndsWith(infilepath, ".gz"))
    IN  IF ~body.ok THEN body
        ELSE [ok |-> TRUE,
              cmd |-> MkdirPrefix(dir_exists) \o body.cmd
                      \o (IF md5 /\ row.filetype # "fastq"
                          THEN Md5Suffix(outfilepath) ELSE <<>>)]

RECURSIVE WriteLines(_)
\* lines 212-213: outfile.write(line + '\n') for every command
WriteLines(lines) ==
    IF lines = <<>> THEN <<>>
    ELSE Head(lines) \o <<"\n">> \o WriteLines(Tail(lines))

RECURSIVE FileIter(_)
\* `for line in infile` (line 224): the lines of the text, each with its
\* line break, the last one without when the text does not end with one
FileIter(content) ==
    IF content = <<>> THEN <<>>
    ELSE IF \A i \in 1 .. Len(content) : content[i] # "\n" THEN <<content>>
    ELSE LET i == CHOOSE i \in 1 .. Len(content) :
                      content[i] = "\n" /\ \A k \in 1 .. (i - 1) : content[k] # "\n"
         IN  <<SubSeq(content, 1, i)>> \o FileIter(SubSeq(content, i + 1, Len(content)))

\* the command file holds a line of an earlier call
OutInit ==
    /\ num_rows \in 0 .. MaxRows
    /\ row_i = 1
    /\ cmd_list = <<>>
    /\ appended = <<>>
    /\ oc_pc = "loop"
    /\ failed_map = <<>>
    /\ outfile = <<"old", "\n">>
    /\ outfile_before = outfile
    /\ generate_md5 \in BOOLEAN
    /\ use_symlink \in BOOLEAN
    /\ batch_dir_exists \in BOOLEAN

\* output_command is not running
OutIdle ==
    /\ num_rows = 0
    /\ row_i = 1
    /\ cmd_list = <<>>
    /\ appended = <<>>
    /\ oc_pc = "idle"
    /\ failed_map = <<>>
    /\ outfile = <<>>
    /\ outfile_before = <<>>
    /\ generate_md5 = FALSE
    /\ use_symlink = FALSE
    /\ batch_dir_exists = FALSE

\* lines 170-209: the command of the next row is appended, or the error of
\* get_sed_cmd_string leaves output_command
OcRow ==
    /\ oc_pc = "loop"
    /\ row_i <= num_rows
    /\ \E row \in Rows :
         LET r == RowCommand(row, generate_md5, use_symlink, batch_dir_exists) IN
         IF r.ok
         THEN /\ cmd_list' = Append(cmd_list, r.cmd)
              /\ appended' = Append(appended, row)
              /\ row_i' = row_i + 1
              /\ UNCHANGED <<oc_pc, failed_map>>
         ELSE /\ oc_pc' = "raised"
              /\ failed_map' = StringMap(row)
              /\ UNCHANGED <<cmd_list, appended, row_i>>
    /\ UNCHANGED <<num_rows, outfile, outfile_before, generate_md5, use_symlink,
                   batch_dir_exists>>
    /\ UNCHANGED <<sched_vars, run_vars, sed_vars, hnd_vars>>

\* lines 211-214: after the loop the file is opened for writing and filled
OcWrite ==
    /\ oc_pc = "loop"
    /\ row_i > num_rows
    /\ outfile' = WriteLines(cmd_list)
    /\ oc_pc' = "written"
    /\ UNCHANGED <<num_rows, row_i, cmd_list, appended, failed_map,
                   outfile_before, generate_md5, use_symlink, batch_dir_exists>>
    /\ UNCHANGED <<sched_vars, run_vars, sed_vars, hnd_vars>>

\* run_command is called on the file output_command wrote (lines 223-224)
RunOpen ==
    /\ oc_pc = "written"
    /\ run_pc = "idle"
    /\ commandfile' = FileIter(outfile)
    /\ multiprocessing' \in 1 .. 2
    /\ run_pc' = "start"
    /\ UNCHANGED <<cmd_params, do_multiprocess, seq_i, run_launched, run_active,
                   run_rc, executed, task_queue, pool_worker, result, log_i,
                   error_logs>>
    /\ UNCHANGED fs
    /\ UNCHANGED <<sched_vars, sed_vars, out_vars, hnd_vars>>

--------------------------------------------------------------------------
\* outfile_handler (file_replace_string.py)

\* the letters the compression strings of the model are made of
CompAlphabet == {"g", "z", "G", "Z", "b", "B"}

\* str.lower() on the letters of the model
LowerChar(c) ==
    CASE c = "G" -> "g" [] c = "Z" -> "z" [] c = "B" -> "b" [] c = "I" -> "i"
      [] c = "P" -> "p" [] c = "N" -> "n" [] c = "O" -> "o" [] c = "E" -> "e"
      [] OTHER -> c
Lower(str) == [i \in 1 .. Len(str) |-> LowerChar(str[i])]

\* the values of `compression`: None, strings, and a value that is no string
CompStrings ==
    StringsUpTo(CompAlphabet, MaxCompLen)
    \cup {<<"g", "z", "i", "p">>, <<"G", "Z", "I", "P">>,
          <<"b", "g", "z", "i", "p">>, <<"B", "g", "Z", "i", "p">>,
          <<"N", "o", "n", "e">>, <<"n", "o", "n", "e">>,
          <<"z", "i", "p">>, <<"x", "z">>}
Compressions ==
    {[type |-> "NoneType", val |-> <<>>], [type |-> "int", val |-> <<"1">>]}
    \cup {[type |-> "str", val |-> str] : str \in CompStrings}

NoHandle == "NoHandle"

\* lines 208-218: the writer returned, NoHandle when the function falls off
\* its end, "Exception" when line 218 raises
OpenHandle(c) ==
    IF c.type = "NoneType" THEN "open"
    ELSE IF c.type = "str"
    THEN IF Lower(c.val) \in {<<"g", "z", "i", "p">>, <<"g", "z">>}
         THEN "gzip.open"
         ELSE IF Lower(c.val) \in {<<"b", "g", "z", "i", "p">>, <<"b", "g", "z">>}
         THEN "BgzfWriter"
         ELSE IF Lower(c.val) = <<"n", "o", "n", "e">>
         THEN "open"
         ELSE NoHandle
    ELSE "Exception"

HndInit ==
    /\ compression \in Compressions
    /\ file_exists \in BOOLEAN
    /\ hnd_pc = "start"
    /\ handle = NoHandle
    /\ hnd_warnings = 0

\* outfile_handler is not running
HndIdle ==
    /\ compression = [type |-> "NoneType", val |-> <<>>]
    /\ file_exists = FALSE
    /\ hnd_pc = "idle"
    /\ handle = NoHandle
    /\ hnd_warnings = 0

\* lines 205-206
HandlerCheck ==
    /\ hnd_pc = "start"
    /\ hnd_warnings' = IF file_exists THEN hnd_warnings + 1 ELSE hnd_warnings
    /\ hnd_pc' = "checked"
    /\ UNCHANGED <<compression, file_exists, handle>>
    /\ UNCHANGED <<sched_vars, run_vars, sed_vars, out_vars>>

\* lines 208-218: a writer creates the file
HandlerOpen ==
    /\ hnd_pc = "checked"
    /\ LET h == OpenHandle(compression) IN
         IF h = "Exception"
         THEN hnd_pc' = "raised" /\ UNCHANGED <<handle, file_exists>>
         ELSE /\ hnd_pc' = "returned"
              /\ handle' = h
              /\ file_exists' = (file_exists \/ h # NoHandle)
    /\ UNCHANGED <<compression, hnd_warnings>>
    /\ UNCHANGED <<sched_vars, run_vars, sed_vars, out_vars>>

--------------------------------------------------------------------------
\* Specifications


SchedStep == Outer \/ Admit \/ AdmitEnd \/ PollStep \/ PollEnd \/ Sleep \/ Close

Init == SchedInit /\ RunIdle /\ SedIdle /\ OutIdle /\ HndIdle

Next ==
    \/ Outer
    \/ Admit
    \/ AdmitEnd
    \/ PollStep
    \/ PollEnd
    \/ Sleep
    \/ Close
    \/ ProcExitAny

Spec == Init /\ [][Next]_vars

\* recursive_replacement.py builds every tuple of the batch as (cmd, None, None)
InitDriver ==
    /\ Init
    /\ \A j \in JobIds : param_list[j] = [stdin |-> None, stdout |-> None]

\* The batch of the driver; the control thread always takes its next step, and
\* every launched process eventually exits.
SpecFair ==
    /\ InitDriver
    /\ [][Next]_vars
    /\ WF_vars(SchedStep)
    /\ \A j \in 0 .. (MaxJobs - 1) : WF_vars(ProcExit(j))

RunNext ==
    \/ RunRead
    \/ SeqLaunch
    \/ SeqReturn
    \/ SeqEnd
    \/ WorkerTakeAny
    \/ WorkerReturnAny
    \/ Collect
    \/ LogStep
    \/ LogEnd

InitRun == SchedIdle /\ RunInit /\ SedIdle /\ OutIdle /\ HndIdle

SpecRun == InitRun /\ [][RunNext]_vars

SedNext ==
    \/ TextfileCmd
    \/ BamCmd
    \/ RunPipeline
    \/ RunBam

InitSed == SchedIdle /\ RunIdle /\ SedInit /\ OutIdle /\ HndIdle

SpecSed == InitSed /\ [][SedNext]_vars

OutNext ==
    \/ OcRow
    \/ OcWrite
    \/ RunOpen
    \/ RunRead

InitOut == SchedIdle /\ RunIdle /\ SedIdle /\ OutInit /\ HndIdle

\* output_command, then run_command reading the file it wrote
SpecOut == InitOut /\ [][OutNext]_vars

\* the fastq rows of one batch whose file name holds no line break
ExecRows ==
    {row \in Rows : /\ row.filetype = "fastq"
                    /\ ~row.old_md5
                    /\ \A i \in 1 .. Len(row.filename) : row.filename[i] # "\n"}

\* the command lists output_command writes for them
ExecBatches ==
    {[i \in 1 .. Len(rows) |->
            RowCommand(rows[i], FALSE, symlink, dir_exists).cmd] :
        rows \in UNION {[1 .. n -> ExecRows] : n \in 1 .. MaxRows},
        symlink \in BOOLEAN, dir_exists \in BOOLEAN}

ExecInit ==
    /\ commandfile \in {FileIter(WriteLines(batch)) : batch \in ExecBatches}
    /\ multiprocessing \in 2 .. MaxProc
    /\ cmd_params = <<>>
    /\ run_pc = "start"
    /\ do_multiprocess = FALSE
    /\ seq_i = 1
    /\ run_launched = <<>>
    /\ run_active = {}
    /\ run_rc = <<>>
    /\ executed = <<>>
    /\ task_queue = <<>>
    /\ pool_worker = <<>>
    /\ result = <<>>
    /\ log_i = 1
    /\ error_logs = <<>>
    /\ fs = {}

ExecNext ==
    \/ RunRead
    \/ WorkerTakeAny
    \/ WorkerReturnAny
    \/ Collect
    \/ LogStep
    \/ LogEnd

InitExec == SchedIdle /\ ExecInit /\ SedIdle /\ OutIdle /\ HndIdle

\* run_command with its pool on a command file of fastq commands and an
\* empty output directory
SpecExec == InitExec /\ [][ExecNext]_vars

HndNext ==
    \/ HandlerCheck
    \/ HandlerOpen

InitHnd == SchedIdle /\ RunIdle /\ SedIdle /\ OutIdle /\ HndInit

SpecHnd == InitHnd /\ [][HndNext]_vars

--------------------------------------------------------------------------
\* Properties of dumb_scheduler

\* C1: in every reachable state of the polling scheduler the number of jobs
\* whose state is RUNNING is at most the bound max_process_num.
C1_RunningAtMostBound == RunningCount <= max_process_num

\* the bound is binding: N jobs run while another one waits
C1_Witness ==
    /\ max_process_num = 2
    /\ RunningCount = 2
    /\ WAITING \in Range(job_states)
    /\ polled

\* C2: with N >= 1 the first min(n, N) jobs have been launched when the first
\* poll phase begins, and a job k >= N has been launched only if some job
\* before it has been observed as exited and marked COMPLETE.
C2_FirstBatchThenWait ==
    max_process_num >= 1 =>
        /\ polled =>
             \A j \in JobIds :
                 j < Min(num_jobs, max_process_num) => launches[j] = 1
        /\ \A k \in JobIds :
             (k >= max_process_num /\ launches[k] > 0) =>
                 \E j \in JobIds : j < k /\ job_states[j] = COMPLETE

\* 3 jobs, N = 2: job 2 runs once job 0 or job 1 is COMPLETE
C2_Witness ==
    /\ num_jobs = 3
    /\ max_process_num = 2
    /\ job_states[2] = RUNNING
    /\ \/ job_states[0] = COMPLETE /\ job_states[1] = RUNNING
       \/ job_states[1] = COMPLETE /\ job_states[0] = RUNNING

\* the failures the returned list of processes reports
BatchFailures ==
    Cardinality({i \in 1 .. Len(processes) :
                    returncode[processes[i]] \notin {{}, {0}}})

C3_Safe ==
    /\ \A j \in JobIds :
         job_states[j] = COMPLETE =>
             proc[j].st = "exited" /\ returncode[j] = proc[j].code
    /\ warnings = Cardinality({j \in JobIds :
                     job_states[j] = COMPLETE /\ returncode[j] # {0}})
    /\ pc = "raised" =>
         \E j \in JobIds : launches[j] = 1 /\ proc[j].st = "none"
    /\ pc = "done" =>
         /\ AllComplete
         /\ Len(processes) = num_jobs
         /\ BatchFailures = Cardinality({j \in JobIds : proc[j].code # {0}})
         /\ warnings = BatchFailures

\* C3: a job that exits non-zero never aborts the batch: the scheduler raises
\* only when a command cannot be launched, every COMPLETE job carries the exit
\* code of its own process, one warning is logged per job that exited
\* non-zero, the returned batch reports exactly the jobs that exited non-zero,
\* and with N >= 1 the scheduler ends (all jobs COMPLETE, unless a launch
\* raised) when every launched process exits.
C3_FailureIsolated ==
    /\ []C3_Safe
    /\ (max_process_num >= 1) => <>(pc = "done" \/ pc = "raised")

\* 3 jobs, job 1 exits non-zero: jobs 0 and 2 are COMPLETE, one failure
C3_Witness ==
    /\ pc = "done"
    /\ num_jobs = 3
    /\ returncode = (0 :> {0} @@ 1 :> {1} @@ 2 :> {0})
    /\ BatchFailures = 1
    /\ warnings = 1

\* C7: dumb_scheduler eventually leaves its loop when every launched process
\* eventually exits, it returns only with every job COMPLETE, and the empty
\* batch returns without a poll.
C7_EventuallyReturns ==
    /\ [](pc = "done" => AllComplete)
    /\ [](num_jobs = 0 /\ pc = "done" => ~polled)
    /\ <>(pc = "done" \/ pc = "raised")

\* the handles supplied in the batch
SuppliedHandles ==
    {h \in Handles : \E j \in JobIds :
        param_list[j].stdin = h \/ param_list[j].stdout = h}

\* C8: whenever dumb_scheduler exits (by return or by an exception), every
\* supplied handle has been closed exactly once.
C8_HandlesClosedOnce ==
    pc \in {"done", "raised"} => \A h \in SuppliedHandles : closes[h] = 1

C9_Step ==
    \A j \in JobIds :
        /\ job_states'[j] # job_states[j] =>
               <<job_states[j], job_states'[j]>> \in
                   {<<WAITING, RUNNING>>, <<RUNNING, COMPLETE>>}
        /\ launches'[j] <= 1
        /\ completions'[j] <= 1
        /\ late_polls'[j] = 0
        /\ job_states'[j] = WAITING => completions'[j] = 0
        /\ job_states'[j] = RUNNING => launches'[j] = 1 /\ completions'[j] = 0
        /\ job_states'[j] = COMPLETE => launches'[j] = 1 /\ completions'[j] = 1

\* C9: every step moves a job's state only WAITING -> RUNNING or RUNNING ->
\* COMPLETE, launches each command at most once (exactly once for a RUNNING
\* or COMPLETE job), records each completion exactly once, and never polls a
\* COMPLETE job.
C9_MonotonicLifecycle == [][C9_Step]_vars

\* N = 1, 3 jobs: the for loop has passed over the COMPLETE jobs 0 and 1 while
\* job 2 runs
C9_Witness ==
    /\ num_jobs = 3
    /\ max_process_num = 1
    /\ job_states = (0 :> COMPLETE @@ 1 :> COMPLETE @@ 2 :> RUNNING)
    /\ pc = "poll"
    /\ poll_i = 3

--------------------------------------------------------------------------
\* Properties of run_command

\* C4: the sequential fallback is taken exactly when args.multiprocessing <= 1;
\* in it the commands are launched one at a time, in batch order, and no
\* command is launched after the first one that exits non-zero, which aborts
\* run_command.
C4_SequentialFallback ==
    run_pc \notin {"idle", "start"} =>
        /\ ~do_multiprocess <=> multiprocessing <= 1
        /\ ~do_multiprocess =>
             /\ Cardinality(run_active) <= 1
             /\ run_active # {} => run_active = {Len(run_launched)}
             /\ run_launched = [i \in 1 .. Len(run_launched) |-> i]
             /\ \A j \in RunJobs :
                  run_rc[j] \notin {{}, {0}} =>
                      run_pc = "raised" /\ Len(run_launched) = j
             /\ run_pc = "done" =>
                  \A j \in RunJobs : executed[j] = 1 /\ run_rc[j] = {0}

\* 3 jobs, the first one fails: the two others are never launched
C4_Witness ==
    /\ ~do_multiprocess
    /\ Len(cmd_params) = 3
    /\ run_rc = <<{1}, {}, {}>>
    /\ run_launched = <<1>>
    /\ run_pc = "raised"

\* the entries of result before position i whose exit code is non-zero
FailedBefore(i) ==
    SelectSeq([k \in 1 .. (i - 1) |-> k], LAMBDA k : result[k][2] # {0})

\* C10: in the worker pool every command is executed at most once and, once
\* the result is collected, exactly once; the result is collected only when
\* every command has ended and holds the (command, exit code) pair of every
\* job in batch order; one error entry is logged per job that exited
\* non-zero; run_command never raises.
C10_WorkerPool ==
    do_multiprocess =>
        /\ run_pc # "raised"
        /\ \A j \in RunJobs : executed[j] <= 1
        /\ run_pc = "wait" => result = <<>> /\ error_logs = <<>>
        /\ run_pc \in {"log", "done"} =>
             /\ run_active = {}
             /\ \A j \in RunJobs : executed[j] = 1 /\ run_rc[j] # {}
             /\ result = [j \in RunJobs |-> <<cmd_params[j][1], run_rc[j]>>]
             /\ error_logs = FailedBefore(log_i)
        /\ run_pc = "done" =>
             Len(error_logs) = Cardinality({j \in RunJobs : run_rc[j] # {0}})

\* 3 jobs on 2 workers, job 2 fails: all three pairs collected, one error entry
C10_Witness ==
    /\ do_multiprocess
    /\ multiprocessing = 2
    /\ run_pc = "done"
    /\ Len(result) = 3
    /\ run_rc = <<{0}, {1}, {0}>>
    /\ error_logs = <<2>>

--------------------------------------------------------------------------
\* Properties of the command synthesis

PunctuationSet == Range(Punctuation)

\* c occurs in a key or in a value of the map d
OccursIn(c, d) ==
    \E i \in 1 .. Len(d) :
        (\E k \in 1 .. Len(d[i][1]) : d[i][1][k] = c)
          \/ (\E k \in 1 .. Len(d[i][2]) : d[i][2][k] = c)

\* the letters and digits the maps of the model use
Alnum == {"A", "B", "b", "0", "7"}

\* every character of every key and value of d is alphanumeric
AllAlnum(d) ==
    \A i \in 1 .. Len(d) :
        Range(d[i][1]) \subseteq Alnum /\ Range(d[i][2]) \subseteq Alnum

\* C5: the delimiter selection either yields a punctuation character that
\* occurs in no key and no value of the map, or fails; it fails exactly when
\* every punctuation character occurs in the keys and values, so it succeeds
\* for every map with alphanumeric keys and values.
C5_DelimiterSafe ==
    sed_pc \in {"synth", "error", "ran"} =>
        /\ sed_pc = "error" <=>
               \A c \in PunctuationSet : OccursIn(c, replacement_dict)
        /\ sed_pc = "error" => sed_separator = None /\ sed_cmd = <<>>
        /\ sed_pc # "error" =>
               /\ sed_separator \in PunctuationSet
               /\ ~OccursIn(sed_separator, replacement_dict)
               /\ \A i \in 3 .. Len(sed_cmd) : sed_cmd[i].sep = sed_separator
        /\ AllAlnum(replacement_dict) => sed_pc # "error"

\* the selection failed on a map whose two entries together use up the
\* punctuation
C5_Witness ==
    /\ sed_pc = "error"
    /\ Len(replacement_dict) = 2
    /\ replacement_dict[1][1] = FirstHalf
    /\ replacement_dict[2][2] = SecondHalf

\* C6: for a single-entry map {k: v} the output of the synthesized pipeline is
\* the input with every occurrence of the literal string k replaced by v.
C6_PipelineIsLiteralReplace ==
    (sed_pc = "ran" /\ Len(replacement_dict) = 1) =>
        sed_output = replace_string(text, replacement_dict)

--------------------------------------------------------------------------
\* Further properties of the delimiter selection and of dumb_scheduler

\* the position in string.punctuation of the first character that occurs in
\* no key and no value of d (0 when there is none)
FirstAbsentPunct(d) ==
    LET absent == {i \in 1 .. Len(Punctuation) : ~OccursIn(Punctuation[i], d)}
    IN  IF absent = {} THEN 0
        ELSE CHOOSE i \in absent : \A k \in absent : i <= k

\* C12: a delimiter that is returned is "/" whenever "/" occurs in no key and
\* no value, and otherwise the first character of string.punctuation that
\* occurs in no key and no value.
C12_DelimiterOrder ==
    sed_pc \in {"synth", "ran"} =>
        /\ ~OccursIn("/", replacement_dict) => sed_separator = "/"
        /\ OccursIn("/", replacement_dict) =>
               /\ FirstAbsentPunct(replacement_dict) # 0
               /\ sed_separator = Punctuation[FirstAbsentPunct(replacement_dict)]

\* "/" and "!" are taken: the next character of the order, the double quote,
\* is returned
C12_Witness ==
    /\ sed_pc = "synth"
    /\ OccursIn("/", replacement_dict)
    /\ OccursIn("!", replacement_dict)
    /\ sed_separator = "\""

\* the jobs for which cmd_runner has been called
Launched == {j \in JobIds : launches[j] > 0}

\* C13: jobs are admitted in batch order: the jobs launched so far are a
\* prefix 0..k-1 of the batch and were launched in that order, whatever the
\* order in which the processes exit.
C13_FifoAdmission ==
    /\ Launched = 0 .. (Cardinality(Launched) - 1)
    /\ processes = [i \in 1 .. Len(processes) |-> i - 1]
    /\ \A i, j \in JobIds : (i < j /\ j \in Launched) => i \in Launched

\* job 1 has completed before job 0, and job 2 was launched after both
C13_Witness ==
    /\ num_jobs = 3
    /\ max_process_num = 2
    /\ job_states = (0 :> RUNNING @@ 1 :> COMPLETE @@ 2 :> RUNNING)

\* the indices of the WAITING jobs, in the order remaining_job_index pops them
RECURSIVE WaitingFrom(_)
WaitingFrom(j) ==
    IF j >= num_jobs THEN <<>>
    ELSE (IF job_states[j] = WAITING THEN <<j>> ELSE <<>>) \o WaitingFrom(j + 1)

\* the order in which pop() returns the elements of the list q
PopOrder(q) == [i \in 1 .. Len(q) |-> q[Len(q) + 1 - i]]

\* C18: while the scheduler runs, remaining_job_index holds exactly the
\* indices of the WAITING jobs, each once and popped in batch order; the
\* scheduler never raises from a pop of the empty list (it raises only when a
\* popped command cannot be launched), and no job is launched twice.
C18_QueueIsWaiting ==
    /\ pc # "raised" => PopOrder(remaining_job_index) = WaitingFrom(0)
    /\ pc = "raised" =>
         \E j \in JobIds :
             /\ launches[j] = 1
             /\ proc[j].st = "none"
             /\ PopOrder(remaining_job_index) = WaitingFrom(j + 1)
    /\ \A j \in JobIds : launches[j] <= 1

\* job 0 is COMPLETE, job 1 RUNNING, and the queue holds the waiting job 2
C18_Witness ==
    /\ num_jobs = 3
    /\ max_process_num = 1
    /\ job_states = (0 :> COMPLETE @@ 1 :> RUNNING @@ 2 :> WAITING)
    /\ remaining_job_index = <<2>>

--------------------------------------------------------------------------
\* C14

RECURSIVE SedSequential(_, _)
\* the entries of d applied as sed substitutions one after another, in map order
SedSequential(str, d) ==
    IF d = <<>> THEN str
    ELSE SedSequential(SedSubstitute(str, d[1][1], d[1][2]), Tail(d))

\* C14: the expression holds one global clause per map entry, in map order,
\* all with the selected delimiter; its effect on the stream equals applying
\* the entries one after another in map order; and bam_cmd gives the same
\* expression to the header and to the body sub-pipeline.
C14_ClausesInMapOrder ==
    sed_pc \in {"synth", "ran"} =>
        /\ Len(sed_cmd) = 2 + Len(replacement_dict)
        /\ \A i \in 1 .. Len(replacement_dict) :
             sed_cmd[2 + i] = [sep |-> sed_separator,
                               key |-> replacement_dict[i][1],
                               val |-> replacement_dict[i][2],
                               flags |-> "g"]
        /\ file_kind = "bam" => header_cmd = sed_cmd
        /\ sed_pc = "ran" =>
             /\ sed_output = SedSequential(text, replacement_dict)
             /\ file_kind = "bam" =>
                  header_output = SedSequential(text, replacement_dict)

--------------------------------------------------------------------------
\* Properties of output_command and of the command file

\* C15: when delimiter selection fails for the map of one row, output_command
\* is left at once: no command is appended for that row (a row other than
\* fastq gets a command only when its map has a free delimiter), the command
\* file keeps the content it had before the call, and nothing is read from
\* it or scheduled; the file is written only when every row got its command.
C15_SynthesisErrorPropagates ==
    /\ Len(appended) = Len(cmd_list)
    /\ \A i \in 1 .. Len(appended) :
         appended[i].filetype # "fastq" =>
             SelectSeparator(StringMap(appended[i])) # None
    /\ oc_pc = "raised" =>
         /\ SelectSeparator(failed_map) = None
         /\ Len(cmd_list) = row_i - 1
         /\ outfile = outfile_before
         /\ run_pc = "idle" /\ commandfile = <<>> /\ cmd_params = <<>>
    /\ oc_pc = "written" => Len(cmd_list) = num_rows
    /\ run_pc # "idle" => oc_pc = "written"

\* the second row fails after the first one got its command
C15_Witness ==
    /\ oc_pc = "raised"
    /\ Len(cmd_list) = 1
    /\ row_i = 2
    /\ outfile = <<"old", "\n">>

\* the commands have been written and read back
ReadBack == oc_pc = "written" /\ run_pc \notin {"idle", "start"}

\* C16 (as stated): the job list read back has as many jobs as commands were
\* written, in the same order, each with the same command string and no
\* stdin/stdout handle.
C16_RoundTrip ==
    ReadBack =>
        /\ Len(cmd_params) = Len(cmd_list)
        /\ \A i \in 1 .. Len(cmd_list) :
             cmd_params[i] = <<cmd_list[i], None, None>>

NoLineBreak(cmd) == \A i \in 1 .. Len(cmd) : cmd[i] # "\n"

\* cmd without its leading and trailing blanks and line breaks
Trimmed(cmd) ==
    LET solid == {i \in 1 .. Len(cmd) : cmd[i] \notin {" ", "\n"}} IN
    IF solid = {} THEN <<>>
    ELSE SubSeq(cmd, CHOOSE i \in solid : \A k \in solid : i <= k,
                     CHOOSE i \in solid : \A k \in solid : k <= i)

\* C16 (amended): when no written command contains a line break, the job list
\* read back has as many jobs as commands were written, in the same order,
\* each without stdin/stdout handle and with the written command stripped of
\* its leading and trailing whitespace: the same string exactly when the
\* command neither begins nor ends with whitespace.
C16_RoundTripUpToStrip ==
    (ReadBack /\ \A i \in 1 .. Len(cmd_list) : NoLineBreak(cmd_list[i])) =>
        /\ Len(cmd_params) = Len(cmd_list)
        /\ \A i \in 1 .. Len(cmd_list) :
             /\ cmd_params[i] = <<Trimmed(cmd_list[i]), None, None>>
             /\ cmd_params[i][1] = cmd_list[i] <=>
                    /\ Head(cmd_list[i]) # " "
                    /\ cmd_list[i][Len(cmd_list[i])] # " "

\* two commands read back, the first one written with a trailing blank
C16_Witness ==
    /\ ReadBack
    /\ Len(cmd_list) = 2
    /\ \A i \in 1 .. 2 : NoLineBreak(cmd_list[i])
    /\ cmd_list[1][Len(cmd_list[1])] = " "
    /\ cmd_params[1][1] # cmd_list[1]
    /\ cmd_params[2][1] = cmd_list[2]

--------------------------------------------------------------------------
\* Properties of outfile_handler

\* C17: outfile_handler returns an open handle for every value of
\* `compression`: the gzip writer for "gzip"/"gz" and the bgzip writer for
\* "bgzip"/"bgz" in any letter case, and the plain text writer for None,
\* "None" and every other input.
C17_AlwaysOpenHandle ==
    hnd_pc \in {"returned", "raised"} =>
        /\ hnd_pc = "returned"
        /\ handle =
             IF compression.type = "str"
                /\ Lower(compression.val) \in {<<"g", "z", "i", "p">>, <<"g", "z">>}
             THEN "gzip.open"
             ELSE IF compression.type = "str"
                     /\ Lower(compression.val)
                            \in {<<"b", "g", "z", "i", "p">>, <<"b", "g", "z">>}
             THEN "BgzfWriter"
             ELSE "open"

--------------------------------------------------------------------------
\* Properties of the executed batch

RECURSIVE InListOrder(_, _)
\* the output directory after the commands have run one after another in the
\* order of the list
InListOrder(cmds, dir) ==
    IF cmds = <<>> THEN dir
    ELSE InListOrder(Tail(cmds), RunList(SplitOn(Head(cmds)[1], ";"), 0, dir).fs)

\* C11: the final outputs of an executed batch do not depend on the order in
\* which its jobs complete: when the batch has ended, the output directory
\* holds what it holds when the jobs complete in the order of the list.
C11_OutputsIndependentOfOrder ==
    (do_multiprocess /\ run_pc \in {"log", "done"}) =>
        fs = InListOrder(cmd_params, {})

====
